---- MODULE Spec2Model ----
(***************************************************************************)
(* A model of Mongod.js: one Mongod instance, the child processes it       *)
(* spawns, its promise queue and the promises returned by open()/close().  *)
(*                                                                         *)
(* Text is a sequence of symbols.  "nl" is \n, "cr" is \r, "x" is text     *)
(* without any keyRE match, "undefined" is the text JavaScript produces    *)
(* for `'' + undefined`, and each of "pid", "port", "ready", "inuse",      *)
(* "denied", "error" stands for one substring that the matching            *)
(* alternative of keyRE matches ("pid" for pid=4242, "port" for            *)
(* port=27017).                                                            *)
(***************************************************************************)
EXTENDS Integers, Sequences, FiniteSets, TLC

VARIABLES
  isOpening, isClosing, isRunning,  \* the three flags of the instance
  pid, port,                        \* server.pid, server.port (Null or a number)
  process,                          \* server.process (Null or a process index)
  openPromise, closePromise,        \* indices into promises
  promises,                         \* every promise returned by promiseQueue.add
  queue,                            \* promiseQueue.queue: bodies not yet started
  inflight,                         \* bodies started, not yet forwarded by the queue
  procs,                            \* every child process spawned so far
  emitted,                          \* how often each notification was emitted
  kills,                            \* how often process.kill() was called
  calls,                            \* history of open()/close() calls
  started,                          \* promises whose bodies started, in order
  log,                              \* the notifications emitted, in order
  spawnThrows,                      \* childprocess.spawn throws for server.config
  crashed,                          \* an exception escaped an event handler
  exited,                           \* the program's 'exit' event was emitted
  peer,                             \* a second Mongod instance, as one record
  pipes,                            \* the getDataPropagator listeners of a process
  parsed                            \* calls of parseConfig and parseFlags

vars == <<isOpening, isClosing, isRunning, pid, port, process, openPromise,
          closePromise, promises, queue, inflight, procs, emitted, kills,
          calls, started, log, spawnThrows, crashed, exited, peer, pipes,
          parsed>>

(* The variables of the first instance. *)
server == <<isOpening, isClosing, isRunning, pid, port, process, openPromise,
            closePromise, promises, queue, inflight, procs, emitted, kills,
            calls, started, log, spawnThrows, crashed, exited>>

(* Bounds of the model: the calls of open()/close() and the processes      *)
(* spawned, under Spec and under SpecReady.                                *)
MaxCalls == 3
MaxProcs == 2
MaxCallsReady == 5
MaxProcsReady == 3
MaxCallsWrites == 2
MaxProcsWrites == 2
MaxCallsSpawn == 3
MaxProcsSpawn == 2
MaxCallsPair == 1
MaxProcsPair == 1

MaxCallsClassify == 2
MaxProcsClassify == 2
MaxCallsExit == 3
MaxProcsExit == 2

(* Bounds of SpecLines: the symbols in a chunk, the symbols written to a   *)
(* stream, the 'stdout' and 'stderr' notifications emitted.                *)
MaxChunk == 3
MaxFed == 4
MaxEvents == 3

(* Bounds of SpecStreams: the symbols in a chunk, the symbols written to a *)
(* stream, the lines given to the classifier.                              *)
MaxChunkStreams == 2
MaxFedStreams == 3
MaxLinesStreams == 3

Null == -1

maxPendingPromisesTwo == 1 + 1
maxPendingPromises == 1

NoSnap ==
  [taken |-> FALSE, isOpening |-> FALSE, isRunning |-> FALSE,
   isClosing |-> FALSE, process |-> Null, pid |-> Null, port |-> Null,
   opens |-> 0, log |-> << >>]

(* The instance as one record, so that the code's statements compose. *)
Cur ==
  [isOpening |-> isOpening, isClosing |-> isClosing, isRunning |-> isRunning,
   pid |-> pid, port |-> port, process |-> process,
   openPromise |-> openPromise, closePromise |-> closePromise,
   promises |-> promises, queue |-> queue, inflight |-> inflight,
   procs |-> procs, emitted |-> emitted, kills |-> kills, calls |-> calls,
   started |-> started, log |-> log, spawnThrows |-> spawnThrows,
   crashed |-> crashed, exited |-> exited]

(* What is kept of the pid= and port= matches a process has written: only *)
(* those of the process that is alive and server.process.                  *)
ForgetWritten(s) ==
  [s EXCEPT !.procs =
     [q \in DOMAIN s.procs |->
        IF q = s.process /\ s.procs[q].alive THEN s.procs[q]
        ELSE [s.procs[q] EXCEPT !.written = {}]]]

(* A handler of the first instance has run: it assigns fields of its own   *)
(* server only.                                                            *)
Becomes(s) ==
  /\ peer' = peer
  /\ pipes' = pipes
  /\ parsed' = parsed
  /\ isOpening' = s.isOpening
  /\ isClosing' = s.isClosing
  /\ isRunning' = s.isRunning
  /\ pid' = s.pid
  /\ port' = s.port
  /\ process' = s.process
  /\ openPromise' = s.openPromise
  /\ closePromise' = s.closePromise
  /\ promises' = s.promises
  /\ queue' = s.queue
  /\ inflight' = s.inflight
  /\ procs' = ForgetWritten(s).procs
  /\ emitted' = s.emitted
  /\ kills' = s.kills
  /\ calls' = s.calls
  /\ started' = s.started
  /\ log' = s.log
  /\ spawnThrows' = s.spawnThrows
  /\ crashed' = s.crashed
  /\ exited' = s.exited

(* What an observer reads off the instance at the instant a promise is     *)
(* resolved or rejected.                                                   *)
Snapshot(s) ==
  [taken |-> TRUE, isOpening |-> s.isOpening, isRunning |-> s.isRunning,
   isClosing |-> s.isClosing, process |-> s.process, pid |-> s.pid,
   port |-> s.port, opens |-> s.emitted.open, log |-> s.log]

(***************************************************************************)
(* Configuration: parseConfig, parseFlags.                                 *)
(***************************************************************************)

(* The properties a caller may set on a configuration object; foo stands   *)
(* for any property the class does not know.                               *)
Fields == {"bin", "conf", "dbpath", "port", "storageEngine", "nojournal",
           "foo"}

(* An object is a function of Fields; Undefined is the value of a property *)
(* that is missing or null (what `!= null` tells apart from the rest).     *)
Undefined == "undefined"

(* Object.create(null) *)
EmptyObject == [k \in Fields |-> Undefined]

(* An argument that was not given, or null. *)
Missing == << >>

(* this.config as the constructor creates it. *)
DefaultConfig ==
  [EmptyObject EXCEPT !.bin = "mongod", !.port = "27017"]

ValueOf ==
  [bin |-> "/opt/mongod", conf |-> "mongod.conf", dbpath |-> "/data/db",
   port |-> "27018", storageEngine |-> "mmapv1", nojournal |-> "true",
   foo |-> "bar"]

(* Every object that sets some of Fields. *)
Objects ==
  { [k \in Fields |-> IF k \in set THEN ValueOf[k] ELSE Undefined] :
      set \in SUBSET Fields }

Keys(object) == { k \in DOMAIN object : object[k] # Undefined }

parseConfig(source, target) ==
  LET t0 == IF target = Missing THEN EmptyObject ELSE target
  IN IF source = Missing THEN t0
     ELSE LET t1 == IF source.bin # Undefined
                    THEN [t0 EXCEPT !.bin = source.bin] ELSE t0
          IN IF source.conf # Undefined
             THEN [t1 EXCEPT !.conf = source.conf]
             ELSE LET t2 == IF source.dbpath # Undefined
                            THEN [t1 EXCEPT !.dbpath = source.dbpath] ELSE t1
                  IN IF source.port # Undefined
                     THEN [t2 EXCEPT !.port = source.port] ELSE t2

parseFlags(config) ==
  IF config.conf # Undefined THEN << "--config", config.conf >>
  ELSE (IF config.dbpath # Undefined
        THEN << "--dbpath", config.dbpath >> ELSE << >>)
       \o (IF config.port # Undefined
           THEN << "--port", config.port >> ELSE << >>)

(* No call of parseConfig or parseFlags has been made. *)
NoParse ==
  [source |-> Missing, target |-> Missing, done |-> {},
   config |-> EmptyObject, flags |-> << >>]

(* new Mongod(): the fields the constructor assigns. *)
NewMongod ==
  [isOpening |-> FALSE, isClosing |-> FALSE, isRunning |-> FALSE,
   pid |-> Null, port |-> Null, process |-> Null,
   openPromise |-> 1, closePromise |-> 2,
   promises |-> << [kind |-> "init", state |-> "resolved", code |-> 0,
                    proc |-> 0, snap |-> NoSnap],
                   [kind |-> "init", state |-> "resolved", code |-> 0,
                    proc |-> 0, snap |-> NoSnap] >>,
   queue |-> << >>, inflight |-> {}, procs |-> << >>,
   emitted |-> [opening |-> 0, open |-> 0, closing |-> 0, close |-> 0],
   kills |-> 0, calls |-> << >>, started |-> << >>, log |-> << >>,
   spawnThrows |-> FALSE, crashed |-> FALSE, exited |-> FALSE]

Init ==
  /\ isOpening = FALSE
  /\ isClosing = FALSE
  /\ isRunning = FALSE
  /\ pid = Null
  /\ port = Null
  /\ process = Null
  /\ promises = << [kind |-> "init", state |-> "resolved", code |-> 0,
                    proc |-> 0, snap |-> NoSnap],
                   [kind |-> "init", state |-> "resolved", code |-> 0,
                    proc |-> 0, snap |-> NoSnap] >>
  /\ openPromise = 1
  /\ closePromise = 2
  /\ queue = << >>
  /\ inflight = {}
  /\ procs = << >>
  /\ emitted = [opening |-> 0, open |-> 0, closing |-> 0, close |-> 0]
  /\ kills = 0
  /\ calls = << >>
  /\ started = << >>
  /\ log = << >>
  /\ spawnThrows = FALSE
  /\ crashed = FALSE
  /\ exited = FALSE
  /\ peer = NewMongod
  /\ pipes = [stdout |-> [fed |-> << >>, buffer |-> << >>],
              stderr |-> [fed |-> << >>, buffer |-> << >>],
              events |-> << >>,
              handler |-> [buffer |-> << >>, lines |-> << >>]]
  /\ parsed = NoParse


(***************************************************************************)
(* Text: newlineRE, getTextLineAggregator, keyRE.                          *)
(***************************************************************************)

(* data.toString().split(newlineRE): the fragments between \r?\n.  cur is  *)
(* the fragment collected so far.                                          *)
RECURSIVE SplitFrom(_, _)
SplitFrom(text, cur) ==
  IF text = << >> THEN << cur >>
  ELSE IF Head(text) = "nl" THEN << cur >> \o SplitFrom(Tail(text), << >>)
  ELSE IF Head(text) = "cr" /\ Len(text) >= 2 /\ text[2] = "nl"
       THEN << cur >> \o SplitFrom(Tail(Tail(text)), << >>)
  ELSE SplitFrom(Tail(text), Append(cur, Head(text)))

Split(text) == SplitFrom(text, << >>)

(* One call of the function getTextLineAggregator returns: the lines       *)
(* handed to the callback, in order, and the new buffer.  With no newline  *)
(* in data, lines is empty and `lines[0] = buffer + lines[0]` stores       *)
(* buffer + undefined as its only element.                                 *)
Aggregate(buffer, data) ==
  LET fragments == Split(data)
      n == Len(fragments)
      lines == SubSeq(fragments, 1, n - 1)
  IN [lines |-> IF lines = << >>
                THEN << buffer \o << "undefined" >> >>
                ELSE << buffer \o lines[1] >> \o Tail(lines),
      buffer |-> fragments[n]]

Tokens == {"pid", "port", "ready", "inuse", "denied", "error"}

(* value.match(keyRE): the matches of a line, left to right.  The last     *)
(* alternative, (error|exception|badvalue)(.|\n)*, runs to the end of the  *)
(* line, so nothing after it is a match of its own.                        *)
RECURSIVE Matches(_)
Matches(line) ==
  IF line = << >> THEN << >>
  ELSE IF Head(line) = "error" THEN << "error" >>
  ELSE IF Head(line) \in Tokens THEN << Head(line) >> \o Matches(Tail(line))
  ELSE Matches(Tail(line))

(* The matches of several lines, in order. *)
RECURSIVE AllMatches(_)
AllMatches(lines) ==
  IF lines = << >> THEN << >>
  ELSE Matches(Head(lines)) \o AllMatches(Tail(lines))

TerminalTokens == {"ready", "inuse", "denied", "error"}

(* The first match among the lines a chunk completes that is not a pid or  *)
(* a port, or "none".                                                      *)
FirstTerminal(buffer, data) ==
  LET ms == AllMatches(Aggregate(buffer, data).lines)
      at == { i \in DOMAIN ms : ms[i] \in TerminalTokens }
  IN IF at = {} THEN "none"
     ELSE ms[CHOOSE i \in at : \A j \in at : i <= j]

(* Number(v) for the digits of a pid= or port= match. *)
NumberOf(match) == IF match = "pid" THEN 4242 ELSE 27017

(***************************************************************************)
(* Promises and the promise queue.  server.promiseQueue is a PromiseQueue  *)
(* of the promise-queue package with maxPendingPromises 1: add() queues a  *)
(* body and calls _dequeue, which starts the head of the queue at once     *)
(* when fewer than maxPendingPromises bodies are in flight; when the       *)
(* promise a body returned settles, a then-callback settles the promise    *)
(* add() returned the same way and calls _dequeue again.                   *)
(***************************************************************************)

NewPromise(kind) ==
  [kind |-> kind, state |-> "pending", code |-> 0, proc |-> 0, snap |-> NoSnap]

(* resolve()/reject() of the promise a body returned: the first call       *)
(* settles it, later calls do nothing.                                     *)
Settle(s, outer, state, code) ==
  [s EXCEPT !.inflight =
     { IF i.outer = outer /\ i.inner = "pending"
       THEN [i EXCEPT !.inner = state, !.code = code, !.snap = Snapshot(s)]
       ELSE i : i \in @ }]

OpenBodyAlwaysSpawns(s, outer) ==
  LET p == Len(s.procs) + 1
  IN [s EXCEPT
        !.emitted.opening = @ + 1,
        !.log = Append(@, "opening"),
        !.procs = Append(@, [alive |-> TRUE, listening |-> TRUE,
                             attempt |-> outer, waiters |-> {},
                             killed |-> FALSE, buffer |-> << >>,
                             signal |-> "none", written |-> {},
                                  hook |-> TRUE]),
        !.process = p,
        !.inflight = @ \cup
          {[kind |-> "open", outer |-> outer, inner |-> "pending",
            code |-> 0, proc |-> p, snap |-> NoSnap]}]

SpawnErrorCode == -8

(* The function open() adds to the queue.  When childprocess.spawn throws, *)
(* the exception leaves the promise executor after 'opening' was emitted   *)
(* and rejects the promise; nothing else of the executor has run.          *)
OpenBody(s, outer) ==
  IF s.isClosing \/ s.isRunning
  THEN LET t == [s EXCEPT !.isOpening = FALSE]
       IN [t EXCEPT !.inflight = @ \cup
             {[kind |-> "open", outer |-> outer, inner |-> "resolved",
               code |-> 0, proc |-> 0, snap |-> Snapshot(t)]}]
  ELSE IF s.spawnThrows
  THEN LET t == [s EXCEPT !.emitted.opening = @ + 1,
                          !.log = Append(@, "opening")]
       IN [t EXCEPT !.inflight = @ \cup
             {[kind |-> "open", outer |-> outer, inner |-> "rejected",
               code |-> SpawnErrorCode, proc |-> 0, snap |-> Snapshot(t)]}]
  ELSE LET p == Len(s.procs) + 1
       IN [s EXCEPT
             !.emitted.opening = @ + 1,
             !.log = Append(@, "opening"),
             !.procs = Append(@, [alive |-> TRUE, listening |-> TRUE,
                                  attempt |-> outer, waiters |-> {},
                                  killed |-> FALSE, buffer |-> << >>,
                                  signal |-> "none", written |-> {},
                                  hook |-> TRUE]),
             !.process = p,
             !.inflight = @ \cup
               {[kind |-> "open", outer |-> outer, inner |-> "pending",
                 code |-> 0, proc |-> p, snap |-> NoSnap]}]

TypeErrorCode == -9

CloseBodyAlwaysKills(s, outer) ==
  LET t == [s EXCEPT !.emitted.closing = @ + 1,
                     !.log = Append(@, "closing")]
  IN IF t.process = Null
     THEN [t EXCEPT !.inflight = @ \cup
             {[kind |-> "close", outer |-> outer, inner |-> "rejected",
               code |-> TypeErrorCode, proc |-> 0, snap |-> Snapshot(t)]}]
     ELSE [t EXCEPT
             !.procs[t.process].waiters = @ \cup {outer},
             !.procs[t.process].killed = TRUE,
             !.kills = @ + 1,
             !.inflight = @ \cup
               {[kind |-> "close", outer |-> outer, inner |-> "pending",
                 code |-> 0, proc |-> t.process, snap |-> NoSnap]}]

(* The function close() adds to the queue.  With server.process null the   *)
(* promise executor throws a TypeError, which rejects the promise.         *)
CloseBody(s, outer) ==
  IF s.isOpening \/ ~s.isRunning
  THEN LET t == [s EXCEPT !.isClosing = FALSE]
       IN [t EXCEPT !.inflight = @ \cup
             {[kind |-> "close", outer |-> outer, inner |-> "resolved",
               code |-> 0, proc |-> 0, snap |-> Snapshot(t)]}]
  ELSE LET t == [s EXCEPT !.emitted.closing = @ + 1,
                          !.log = Append(@, "closing")]
       IN IF t.process = Null
          THEN [t EXCEPT !.inflight = @ \cup
                  {[kind |-> "close", outer |-> outer, inner |-> "rejected",
                    code |-> TypeErrorCode, proc |-> 0, snap |-> Snapshot(t)]}]
          ELSE [t EXCEPT
                  !.procs[t.process].waiters = @ \cup {outer},
                  !.procs[t.process].killed = TRUE,
                  !.kills = @ + 1,
                  !.inflight = @ \cup
                    {[kind |-> "close", outer |-> outer, inner |-> "pending",
                      code |-> 0, proc |-> t.process, snap |-> NoSnap]}]

(* PromiseQueue._dequeue: start the next body unless the queue is empty or *)
(* maxPendingPromises bodies are in flight.                                *)
Dequeue(s) ==
  IF Cardinality(s.inflight) >= maxPendingPromises \/ s.queue = << >>
  THEN s
  ELSE LET item == Head(s.queue)
           t == [s EXCEPT !.queue = Tail(@),
                          !.started = Append(@, item.outer)]
       IN IF item.kind = "open" THEN OpenBody(t, item.outer)
          ELSE CloseBody(t, item.outer)

(* PromiseQueue.add: a new promise, the body queued, then _dequeue. *)
QueueAdd(s, kind) ==
  LET outer == Len(s.promises) + 1
  IN Dequeue([s EXCEPT !.promises = Append(@, NewPromise(kind)),
                       !.queue = Append(@, [kind |-> kind, outer |-> outer])])


(***************************************************************************)
(* The handlers open() attaches to a spawned process.                      *)
(***************************************************************************)

(* k of matchHandler: 'error' when errorRE matches, else the text before   *)
(* '=' without blanks, in lower case.                                      *)
KeyOf(match) ==
  CASE match = "error" -> "error"
    [] match = "inuse" -> "alreadyinuse"
    [] match = "denied" -> "deniedforsocket"
    [] match = "pid" -> "pid"
    [] match = "port" -> "port"
    [] match = "ready" -> "waitingforconnections"
    [] OTHER -> "none"

(* err.code of the three classified errors; 0 is err === null. *)
ErrCode(k) ==
  CASE k = "error" -> -1
    [] k = "alreadyinuse" -> -2
    [] k = "deniedforsocket" -> -3
    [] OTHER -> 0

(* matchHandler for process p: the instance afterwards, and the value it   *)
(* returns (done).                                                         *)
MatchHandlerKeepsOpening(s, p, match) ==
  LET k == KeyOf(match)
  IN CASE k \in {"pid", "port"} ->
            [s |-> IF k = "pid" THEN [s EXCEPT !.pid = NumberOf(match)]
                   ELSE [s EXCEPT !.port = NumberOf(match)],
             done |-> FALSE]
       [] k = "waitingforconnections" ->
            LET t == [s EXCEPT !.isRunning = TRUE, !.emitted.open = @ + 1,
                               !.log = Append(@, "open"),
                               !.isOpening = FALSE]
            IN [s |-> Settle(t, s.procs[p].attempt, "resolved", 0),
                done |-> TRUE]
       [] k \in {"error", "alreadyinuse", "deniedforsocket"} ->
            [s |-> Settle(s, s.procs[p].attempt, "rejected", ErrCode(k)),
             done |-> TRUE]
       [] OTHER -> [s |-> s, done |-> FALSE]

MatchHandlerNoOpenEvent(s, p, match) ==
  LET k == KeyOf(match)
  IN CASE k \in {"pid", "port"} ->
            [s |-> IF k = "pid" THEN [s EXCEPT !.pid = NumberOf(match)]
                   ELSE [s EXCEPT !.port = NumberOf(match)],
             done |-> FALSE]
       [] k = "waitingforconnections" ->
            LET t == [s EXCEPT !.isRunning = TRUE, !.isOpening = FALSE]
            IN [s |-> Settle(t, s.procs[p].attempt, "resolved", 0),
                done |-> TRUE]
       [] k \in {"error", "alreadyinuse", "deniedforsocket"} ->
            LET t == [s EXCEPT !.isOpening = FALSE]
            IN [s |-> Settle(t, s.procs[p].attempt, "rejected", ErrCode(k)),
                done |-> TRUE]
       [] OTHER -> [s |-> s, done |-> FALSE]

MatchHandler(s, p, match) ==
  LET k == KeyOf(match)
  IN CASE k \in {"pid", "port"} ->
            [s |-> IF k = "pid" THEN [s EXCEPT !.pid = NumberOf(match)]
                   ELSE [s EXCEPT !.port = NumberOf(match)],
             done |-> FALSE]
       [] k = "waitingforconnections" ->
            LET t == [s EXCEPT !.isRunning = TRUE, !.emitted.open = @ + 1,
                               !.log = Append(@, "open"),
                               !.isOpening = FALSE]
            IN [s |-> Settle(t, s.procs[p].attempt, "resolved", 0),
                done |-> TRUE]
       [] k \in {"error", "alreadyinuse", "deniedforsocket"} ->
            LET t == [s EXCEPT !.isOpening = FALSE]
            IN [s |-> Settle(t, s.procs[p].attempt, "rejected", ErrCode(k)),
                done |-> TRUE]
       [] OTHER -> [s |-> s, done |-> FALSE]

(* server.process.stdout/stderr.removeListener('data', dataHandler): with  *)
(* server.process null the property access throws out of the 'data'        *)
(* listener.                                                               *)
RemoveListeners(s) ==
  IF s.process = Null THEN [s EXCEPT !.crashed = TRUE]
  ELSE [s EXCEPT !.procs[s.process].listening = FALSE]

(* The callback dataHandler gives the aggregator: the matches of one line  *)
(* go to matchHandler until it returns true.                               *)
RECURSIVE HandleMatches(_, _, _)
HandleMatches(s, p, matches) ==
  IF matches = << >> THEN s
  ELSE LET r == MatchHandler(s, p, Head(matches))
       IN IF r.done THEN RemoveListeners(r.s)
          ELSE HandleMatches(r.s, p, Tail(matches))

(* The aggregator's loop over the lines of one chunk; an exception ends it. *)
RECURSIVE HandleLines(_, _, _)
HandleLines(s, p, lines) ==
  IF lines = << >> \/ s.crashed THEN s
  ELSE HandleLines(HandleMatches(s, p, Matches(Head(lines))), p, Tail(lines))

(* dataHandler, the listener of both stdout and stderr of process p. *)
DataHandler(s, p, data) ==
  LET agg == Aggregate(s.procs[p].buffer, data)
  IN HandleLines([s EXCEPT !.procs[p].buffer = agg.buffer], p, agg.lines)

(* Every close attempt waiting on process p by process.once('close'). *)
RECURSIVE ResolveAll(_, _)
ResolveAll(s, waiters) ==
  IF waiters = {} THEN s
  ELSE LET w == CHOOSE x \in waiters : TRUE
       IN ResolveAll(Settle(s, w, "resolved", 0), waiters \ {w})

CloseHandlerKeepsRunning(s, p) ==
  LET t == [s EXCEPT !.process = Null, !.port = Null, !.pid = Null,
                     !.isClosing = FALSE,
                     !.emitted.close = @ + 1,
                     !.log = Append(@, "close"),
                     !.procs[p].alive = FALSE,
                     !.procs[p].listening = FALSE,
                     !.procs[p].hook = FALSE,
                     !.procs[p].waiters = {}]
  IN ResolveAll(t, s.procs[p].waiters)

CloseHandlerKeepsClosing(s, p) ==
  LET t == [s EXCEPT !.process = Null, !.port = Null, !.pid = Null,
                     !.isRunning = FALSE,
                     !.emitted.close = @ + 1,
                     !.log = Append(@, "close"),
                     !.procs[p].alive = FALSE,
                     !.procs[p].listening = FALSE,
                     !.procs[p].hook = FALSE,
                     !.procs[p].waiters = {}]
  IN ResolveAll(t, s.procs[p].waiters)

CloseHandlerKeepsHook(s, p) ==
  LET t == [s EXCEPT !.process = Null, !.port = Null, !.pid = Null,
                     !.isRunning = FALSE, !.isClosing = FALSE,
                     !.emitted.close = @ + 1,
                     !.log = Append(@, "close"),
                     !.procs[p].alive = FALSE,
                     !.procs[p].listening = FALSE,
                     !.procs[p].waiters = {}]
  IN ResolveAll(t, s.procs[p].waiters)

(* The 'close' listeners of process p: first the one open() attached, which *)
(* also removes exitHandler from the program's 'exit' listeners, then the  *)
(* ones close() attached.                                                  *)
CloseHandler(s, p) ==
  LET t == [s EXCEPT !.process = Null, !.port = Null, !.pid = Null,
                     !.isRunning = FALSE, !.isClosing = FALSE,
                     !.emitted.close = @ + 1,
                     !.log = Append(@, "close"),
                     !.procs[p].alive = FALSE,
                     !.procs[p].listening = FALSE,
                     !.procs[p].hook = FALSE,
                     !.procs[p].waiters = {}]
  IN ResolveAll(t, s.procs[p].waiters)

(***************************************************************************)
(* Mongod.open and Mongod.close, as called through #open() and #close().   *)
(***************************************************************************)

(* Some attempt is unsettled: a body is queued or in flight. *)
Busy(s) == s.queue # << >> \/ s.inflight # {}

(* The history of calls: the operation, the promise returned, whether the  *)
(* call created that promise, and whether an attempt was unsettled when    *)
(* the call was made.                                                      *)
NoteCall(s, op, ret, fresh, busy) ==
  [s EXCEPT !.calls = Append(@, [op |-> op, ret |-> ret, fresh |-> fresh,
                                 busy |-> busy])]

OpenCallAlwaysNew(s) ==
  LET a == [s EXCEPT !.isOpening = TRUE, !.isClosing = FALSE]
      b == QueueAdd(a, "open")
      c == [b EXCEPT !.openPromise = Len(s.promises) + 1]
  IN NoteCall(c, "open", c.openPromise, TRUE, Busy(s))

OpenCallKeepsClosing(s) ==
  IF s.isOpening THEN NoteCall(s, "open", s.openPromise, FALSE, Busy(s))
  ELSE LET a == [s EXCEPT !.isOpening = TRUE]
           b == QueueAdd(a, "open")
           c == [b EXCEPT !.openPromise = Len(s.promises) + 1]
       IN NoteCall(c, "open", c.openPromise, TRUE, Busy(s))

OpenCall(s) ==
  IF s.isOpening THEN NoteCall(s, "open", s.openPromise, FALSE, Busy(s))
  ELSE LET a == [s EXCEPT !.isOpening = TRUE, !.isClosing = FALSE]
           b == QueueAdd(a, "open")
           c == [b EXCEPT !.openPromise = Len(s.promises) + 1]
       IN NoteCall(c, "open", c.openPromise, TRUE, Busy(s))

CloseCallKeepsOpening(s) ==
  IF s.isClosing THEN NoteCall(s, "close", s.closePromise, FALSE, Busy(s))
  ELSE LET a == [s EXCEPT !.isClosing = TRUE]
           b == QueueAdd(a, "close")
           c == [b EXCEPT !.closePromise = Len(s.promises) + 1]
       IN NoteCall(c, "close", c.closePromise, TRUE, Busy(s))

CloseCallAlwaysNew(s) ==
  LET a == [s EXCEPT !.isClosing = TRUE, !.isOpening = FALSE]
      b == QueueAdd(a, "close")
      c == [b EXCEPT !.closePromise = Len(s.promises) + 1]
  IN NoteCall(c, "close", c.closePromise, TRUE, Busy(s))

CloseCall(s) ==
  IF s.isClosing THEN NoteCall(s, "close", s.closePromise, FALSE, Busy(s))
  ELSE LET a == [s EXCEPT !.isClosing = TRUE, !.isOpening = FALSE]
           b == QueueAdd(a, "close")
           c == [b EXCEPT !.closePromise = Len(s.promises) + 1]
       IN NoteCall(c, "close", c.closePromise, TRUE, Busy(s))

(* promise.then(callback).catch(callback) of #open() and #close(), for a   *)
(* callback that returns normally: the calls of the callback a promise     *)
(* causes, each as what its parameters (err, res) read.  A resolved        *)
(* promise calls callback(null) and a rejected one callback(err): one      *)
(* argument, so res reads undefined.  err 0 is null.                       *)
ThenCatch(promise) ==
  CASE promise.state = "resolved" -> << [err |-> 0, res |-> "undefined"] >>
    [] promise.state = "rejected" ->
         << [err |-> promise.code, res |-> "undefined"] >>
    [] OTHER -> << >>

(* The queue's then-callbacks on the promise a body returned: settle the   *)
(* promise add() returned the same way, then _dequeue.                     *)
ForwardStep(s, item) ==
  Dequeue([s EXCEPT
             !.inflight = @ \ {item},
             !.promises[item.outer] =
               [@ EXCEPT !.state = item.inner, !.code = item.code,
                         !.proc = item.proc, !.snap = item.snap]])

(***************************************************************************)
(* Actions.                                                                *)
(***************************************************************************)

(* A then-callback of the queue is waiting in the microtask queue; it runs *)
(* before the next event of a child process is delivered.  Calls of open() *)
(* and close() may come first: from a listener of a notification emitted   *)
(* by the handler that settled the body, or from a then-callback of an     *)
(* attempt settled earlier.                                                *)
MicrotaskPending == \E i \in inflight : i.inner # "pending"

(* A caller calls server.open(). *)
CallOpen(maxCalls, maxProcs) ==
  /\ ~crashed
  /\ Len(calls) < maxCalls
  /\ Len(OpenCall(Cur).procs) <= maxProcs
  /\ Becomes(OpenCall(Cur))

(* A caller calls server.close(). *)
CallClose(maxCalls, maxProcs) ==
  /\ ~crashed
  /\ Len(calls) < maxCalls
  /\ Len(CloseCall(Cur).procs) <= maxProcs
  /\ Becomes(CloseCall(Cur))

(* The queue forwards the outcome of a body and starts the next one. *)
ForwardWithin(item, maxProcs) ==
  /\ ~crashed
  /\ item.inner # "pending"
  /\ Len(ForwardStep(Cur, item).procs) <= maxProcs
  /\ Becomes(ForwardStep(Cur, item))

Open == CallOpen(MaxCalls, MaxProcs)

Close == CallClose(MaxCalls, MaxProcs)

Forward(item) == ForwardWithin(item, MaxProcs)

(* What process p has written: the first match that is not a pid or a     *)
(* port in the lines dataHandler was given.                                *)
NoteSignal(s, p, tok) ==
  IF s.procs[p].signal = "none" THEN [s EXCEPT !.procs[p].signal = tok]
  ELSE s

(* The pid= and port= matches in the lines a chunk ends. *)
WrittenIn(data) ==
  LET fragments == Split(data)
      ms == AllMatches(SubSeq(fragments, 1, Len(fragments) - 1))
  IN { ms[i] : i \in DOMAIN ms } \cap {"pid", "port"}

(* What process p has written: the pid= and port= matches of its lines. *)
NoteWritten(s, p, data) ==
  [s EXCEPT !.procs[p].written = @ \cup WrittenIn(data)]


(* Process p writes a chunk to stdout or stderr while dataHandler listens. *)
Data(p, data) ==
  /\ ~crashed
  /\ ~MicrotaskPending
  /\ procs[p].alive
  /\ procs[p].listening
  /\ Becomes(NoteSignal(DataHandler(Cur, p, data), p,
                        FirstTerminal(procs[p].buffer, data)))

(* The same, keeping what p has written. *)
DataWritten(p, data) ==
  /\ ~crashed
  /\ ~MicrotaskPending
  /\ procs[p].alive
  /\ procs[p].listening
  /\ Becomes(NoteWritten(NoteSignal(DataHandler(Cur, p, data), p,
                                    FirstTerminal(procs[p].buffer, data)),
                         p, data))

(* Process p writes a chunk after dataHandler was removed from its stdout  *)
(* and stderr: only the listeners of getDataPropagator see it, and the     *)
(* instance does not change.                                               *)
DataUnheard(p, data) ==
  /\ ~crashed
  /\ ~MicrotaskPending
  /\ procs[p].alive
  /\ ~procs[p].listening
  /\ process = p
  /\ ~(WrittenIn(data) \subseteq procs[p].written)
  /\ Becomes(NoteWritten(Cur, p, data))

(* Process p exits and its 'close' event is delivered. *)
ProcClose(p) ==
  /\ ~crashed
  /\ ~MicrotaskPending
  /\ procs[p].alive
  /\ Becomes(CloseHandler(Cur, p))

(* The chunks a child process may write: single lines of each class, text  *)
(* without a newline, and two lines in one chunk.                          *)
Chunks ==
  { << "pid", "port", "nl" >>,
    << "ready", "nl" >>,
    << "error", "nl" >>,
    << "inuse", "nl" >>,
    << "denied", "nl" >>,
    << "x" >>,
    << "error", "nl", "ready", "nl" >>,
    << "ready", "nl", "ready", "nl" >> }

Next ==
  \/ Open
  \/ Close
  \/ \E item \in inflight : Forward(item)
  \/ \E p \in DOMAIN procs : \E data \in Chunks : Data(p, data)
  \/ \E p \in DOMAIN procs : ProcClose(p)

Spec == Init /\ [][Next]_vars

(* A well-behaved server: it reports its pid and port and that it is ready *)
(* and exits only when killed.                                             *)
ReadyChunks ==
  { << "pid", "port", "nl" >>,
    << "ready", "nl" >> }

KilledClose(p) ==
  /\ procs[p].killed
  /\ ProcClose(p)

ReadyOpen == CallOpen(MaxCallsReady, MaxProcsReady)

ReadyClose == CallClose(MaxCallsReady, MaxProcsReady)

ReadyForward(item) == ForwardWithin(item, MaxProcsReady)

NextReady ==
  \/ ReadyOpen
  \/ ReadyClose
  \/ \E item \in inflight : ReadyForward(item)
  \/ \E p \in DOMAIN procs : \E data \in ReadyChunks : Data(p, data)
  \/ \E p \in DOMAIN procs : KilledClose(p)

SpecReady == Init /\ [][NextReady]_vars

(* Any server, with what the current process has written kept, and with    *)
(* the chunks it writes after dataHandler was removed.                     *)
WritesOpen == CallOpen(MaxCallsWrites, MaxProcsWrites)

WritesClose == CallClose(MaxCallsWrites, MaxProcsWrites)

WritesForward(item) == ForwardWithin(item, MaxProcsWrites)

NextWrites ==
  \/ WritesOpen
  \/ WritesClose
  \/ \E item \in inflight : WritesForward(item)
  \/ \E p \in DOMAIN procs : \E data \in Chunks : DataWritten(p, data)
  \/ \E p \in DOMAIN procs : \E data \in Chunks : DataUnheard(p, data)
  \/ \E p \in DOMAIN procs : ProcClose(p)

SpecWrites == Init /\ [][NextWrites]_vars

(* Whole lines in which a class of text stands alone, beside plain text or *)
(* beside another class, and lines without any.                            *)
ClassifyLines ==
  { << "ready", "nl" >>,
    << "x", "ready", "x", "nl" >>,
    << "pid", "ready", "nl" >>,
    << "ready", "error", "nl" >>,
    << "error", "ready", "nl" >>,
    << "inuse", "ready", "nl" >>,
    << "denied", "ready", "nl" >>,
    << "x", "nl" >>,
    << "nl" >> }

ClassifyOpen == CallOpen(MaxCallsClassify, MaxProcsClassify)

ClassifyClose == CallClose(MaxCallsClassify, MaxProcsClassify)

ClassifyForward(item) == ForwardWithin(item, MaxProcsClassify)

NextClassify ==
  \/ ClassifyOpen
  \/ ClassifyClose
  \/ \E item \in inflight : ClassifyForward(item)
  \/ \E p \in DOMAIN procs : \E data \in ClassifyLines : Data(p, data)
  \/ \E p \in DOMAIN procs : ProcClose(p)

SpecClassify == Init /\ [][NextClassify]_vars

(* exitHandler, the listener of the program's 'exit' event that open()     *)
(* registers beside a spawned process.                                     *)
ExitHandler(s) == CloseCall(s)

(* The program emits 'exit': the exitHandler of every process from p on    *)
(* whose listener is registered runs, in the order of registration.        *)
RECURSIVE EmitExit(_, _)
EmitExit(s, p) ==
  IF p > Len(s.procs) THEN s
  ELSE EmitExit(IF s.procs[p].hook THEN ExitHandler(s) ELSE s, p + 1)

(* The program ends, by process.exit() or by an uncaught exception: the    *)
(* listeners of 'exit' run and nothing runs after them.                    *)
ProgramExit ==
  /\ ~exited
  /\ Becomes([EmitExit(Cur, 1) EXCEPT !.exited = TRUE])

ExitOpen == ~exited /\ CallOpen(MaxCallsExit, MaxProcsExit)

ExitClose == ~exited /\ CallClose(MaxCallsExit, MaxProcsExit)

ExitForward(item) == ~exited /\ ForwardWithin(item, MaxProcsExit)

ExitData(p, data) == ~exited /\ Data(p, data)

ExitProcClose(p) == ~exited /\ ProcClose(p)

NextExit ==
  \/ ExitOpen
  \/ ExitClose
  \/ \E item \in inflight : ExitForward(item)
  \/ \E p \in DOMAIN procs : \E data \in ReadyChunks : ExitData(p, data)
  \/ \E p \in DOMAIN procs : ExitProcClose(p)
  \/ ProgramExit

SpecExit == Init /\ [][NextExit]_vars

(* The same program with the scheduling the event loop guarantees: a       *)
(* then-callback that is waiting in the microtask queue runs.              *)
SpecProgress ==
  Spec /\ WF_vars(\E item \in inflight : Forward(item))

(* Any server, and a caller that may also assign server.config so that     *)
(* childprocess.spawn throws (bin not a string) or no longer does.         *)
SetConfig(throws) ==
  /\ ~crashed
  /\ throws # spawnThrows
  /\ Becomes([Cur EXCEPT !.spawnThrows = throws])

SpawnOpen == CallOpen(MaxCallsSpawn, MaxProcsSpawn)

SpawnClose == CallClose(MaxCallsSpawn, MaxProcsSpawn)

SpawnForward(item) == ForwardWithin(item, MaxProcsSpawn)

NextSpawn ==
  \/ SpawnOpen
  \/ SpawnClose
  \/ \E item \in inflight : SpawnForward(item)
  \/ \E p \in DOMAIN procs : \E data \in ReadyChunks : Data(p, data)
  \/ \E p \in DOMAIN procs : ProcClose(p)
  \/ \E throws \in BOOLEAN : SetConfig(throws)

SpecSpawn == Init /\ [][NextSpawn]_vars

(* Two instances in one program.  A handler of the second instance has     *)
(* run: it assigns fields of its own server only.                          *)
PeerBecomesShared(s) ==
  /\ peer' = s
  /\ isOpening' = s.isOpening
  /\ UNCHANGED <<isClosing, isRunning, pid, port, process, openPromise,
                 closePromise, promises, queue, inflight, procs, emitted,
                 kills, calls, started, log, spawnThrows, crashed, exited,
                 pipes, parsed>>

PeerBecomes(s) ==
  /\ peer' = s
  /\ UNCHANGED <<server, pipes, parsed>>

(* A then-callback of either instance's queue is waiting. *)
PairMicrotaskPending ==
  \/ MicrotaskPending
  \/ \E i \in peer.inflight : i.inner # "pending"

PairOpen == CallOpen(MaxCallsPair, MaxProcsPair)

PairClose == CallClose(MaxCallsPair, MaxProcsPair)

PairForward(item) == ForwardWithin(item, MaxProcsPair)

PairData(p, data) == ~PairMicrotaskPending /\ Data(p, data)

PairProcClose(p) == ~PairMicrotaskPending /\ ProcClose(p)

PeerOpen ==
  /\ ~peer.crashed
  /\ Len(peer.calls) < MaxCallsPair
  /\ Len(OpenCall(peer).procs) <= MaxProcsPair
  /\ PeerBecomes(OpenCall(peer))

PeerClose ==
  /\ ~peer.crashed
  /\ Len(peer.calls) < MaxCallsPair
  /\ Len(CloseCall(peer).procs) <= MaxProcsPair
  /\ PeerBecomes(CloseCall(peer))

PeerForward(item) ==
  /\ ~peer.crashed
  /\ item.inner # "pending"
  /\ Len(ForwardStep(peer, item).procs) <= MaxProcsPair
  /\ PeerBecomes(ForwardStep(peer, item))

PeerData(p, data) ==
  /\ ~peer.crashed
  /\ ~PairMicrotaskPending
  /\ peer.procs[p].alive
  /\ peer.procs[p].listening
  /\ PeerBecomes(NoteSignal(DataHandler(peer, p, data), p,
                            FirstTerminal(peer.procs[p].buffer, data)))

PeerProcClose(p) ==
  /\ ~peer.crashed
  /\ ~PairMicrotaskPending
  /\ peer.procs[p].alive
  /\ PeerBecomes(CloseHandler(peer, p))

PairChunks ==
  { << "pid", "port", "nl" >>,
    << "ready", "nl" >>,
    << "error", "nl" >> }

NextPair ==
  \/ PairOpen
  \/ PairClose
  \/ \E item \in inflight : PairForward(item)
  \/ \E p \in DOMAIN procs : \E data \in PairChunks : PairData(p, data)
  \/ \E p \in DOMAIN procs : PairProcClose(p)
  \/ PeerOpen
  \/ PeerClose
  \/ \E item \in peer.inflight : PeerForward(item)
  \/ \E p \in DOMAIN peer.procs : \E data \in PairChunks : PeerData(p, data)
  \/ \E p \in DOMAIN peer.procs : PeerProcClose(p)

SpecPair == Init /\ [][NextPair]_vars

(* The two listeners getDataPropagator gives a process: each an aggregator *)
(* of its own whose callback emits the event with the line.  pipes keeps,  *)
(* per stream, the text written to it and the aggregator's buffer, and the *)
(* notifications emitted, in order.                                        *)
RECURSIVE TextsUpTo(_)
TextsUpTo(n) ==
  IF n = 0 THEN { << >> }
  ELSE LET shorter == TextsUpTo(n - 1)
       IN shorter \cup { Append(s, c) : s \in shorter, c \in {"x", "cr", "nl"} }

LineChunks == TextsUpTo(MaxChunk)

DataPropagator(event, data) ==
  LET agg == Aggregate(pipes[event].buffer, data)
  IN /\ Len(pipes[event].fed) + Len(data) <= MaxFed
     /\ Len(pipes.events) + Len(agg.lines) <= MaxEvents
     /\ pipes' = [pipes EXCEPT
                    ![event] = [fed |-> @.fed \o data, buffer |-> agg.buffer],
                    !.events = @ \o [i \in 1..Len(agg.lines) |->
                                       [event |-> event, line |-> agg.lines[i]]]]
     /\ UNCHANGED <<server, peer, parsed>>

NextLines ==
  \/ \E data \in LineChunks : DataPropagator("stdout", data)
  \/ \E data \in LineChunks : DataPropagator("stderr", data)

SpecLines == Init /\ [][NextLines]_vars


(* dataHandler as the 'data' listener of both streams of a process: one    *)
(* aggregator, so one buffer, whichever stream the chunk came from.        *)
(* pipes.handler keeps that buffer and the lines given to its callback.    *)
(* Here "out" is text the process writes to stdout only and "err" text it  *)
(* writes to stderr only; neither holds a match of keyRE.                  *)
TextOf(stream) == IF stream = "stdout" THEN "out" ELSE "err"

RECURSIVE StreamTexts(_, _)
StreamTexts(stream, n) ==
  IF n = 0 THEN { << >> }
  ELSE LET shorter == StreamTexts(stream, n - 1)
       IN shorter \cup { Append(s, c) : s \in shorter,
                                         c \in {TextOf(stream), "nl"} }

StreamChunks(stream) == StreamTexts(stream, MaxChunkStreams)

DataHandlerOn(stream, data) ==
  LET agg == Aggregate(pipes.handler.buffer, data)
  IN /\ Len(pipes[stream].fed) + Len(data) <= MaxFedStreams
     /\ Len(pipes.handler.lines) + Len(agg.lines) <= MaxLinesStreams
     /\ \A i \in DOMAIN agg.lines : Matches(agg.lines[i]) = << >>
     /\ pipes' = [pipes EXCEPT
                    ![stream].fed = @ \o data,
                    !.handler = [buffer |-> agg.buffer,
                                 lines |-> @.lines \o agg.lines]]
     /\ UNCHANGED <<server, peer, parsed>>

NextStreams ==
  \/ \E data \in StreamChunks("stdout") : DataHandlerOn("stdout", data)
  \/ \E data \in StreamChunks("stderr") : DataHandlerOn("stderr", data)

SpecStreams == Init /\ [][NextStreams]_vars


(* A program that calls the two static functions: parseConfig with any    *)
(* source and without a target or with the constructor's, parseFlags with  *)
(* any object as its config.                                               *)
InitConfig ==
  /\ isOpening = NewMongod.isOpening
  /\ isClosing = NewMongod.isClosing
  /\ isRunning = NewMongod.isRunning
  /\ pid = NewMongod.pid
  /\ port = NewMongod.port
  /\ process = NewMongod.process
  /\ promises = NewMongod.promises
  /\ openPromise = NewMongod.openPromise
  /\ closePromise = NewMongod.closePromise
  /\ queue = NewMongod.queue
  /\ inflight = NewMongod.inflight
  /\ procs = NewMongod.procs
  /\ emitted = NewMongod.emitted
  /\ kills = NewMongod.kills
  /\ calls = NewMongod.calls
  /\ started = NewMongod.started
  /\ log = NewMongod.log
  /\ spawnThrows = NewMongod.spawnThrows
  /\ crashed = NewMongod.crashed
  /\ exited = NewMongod.exited
  /\ peer = NewMongod
  /\ pipes = [stdout |-> [fed |-> << >>, buffer |-> << >>],
              stderr |-> [fed |-> << >>, buffer |-> << >>],
              events |-> << >>,
              handler |-> [buffer |-> << >>, lines |-> << >>]]
  /\ parsed \in { [NoParse EXCEPT !.source = source, !.target = target] :
                    source \in Objects \cup {Missing},
                    target \in {Missing, DefaultConfig} }

ParseConfig ==
  /\ "config" \notin parsed.done
  /\ parsed' = [parsed EXCEPT
                  !.config = parseConfig(parsed.source, parsed.target),
                  !.done = @ \cup {"config"}]
  /\ UNCHANGED <<server, peer, pipes>>

(* parseFlags(null) throws: it is called with an object. *)
ParseFlags ==
  /\ "flags" \notin parsed.done
  /\ parsed.source # Missing
  /\ parsed' = [parsed EXCEPT
                  !.flags = parseFlags(parsed.source),
                  !.done = @ \cup {"flags"}]
  /\ UNCHANGED <<server, peer, pipes>>

NextConfig ==
  \/ ParseConfig
  \/ ParseFlags

SpecConfig == InitConfig /\ [][NextConfig]_vars


(***************************************************************************)
(* Vocabulary of the properties.                                           *)
(***************************************************************************)

Last(seq) == seq[Len(seq)]

(* This step is a call of op ("open" or "close"). *)
CallStep(op) == Len(calls') = Len(calls) + 1 /\ Last(calls').op = op

(* The calls of op made so far that created an attempt. *)
FreshCalls(op) == { i \in DOMAIN calls : calls[i].op = op /\ calls[i].fresh }

(* The promise the latest earlier call of op returned. *)
LastRet(op) ==
  LET earlier == { i \in DOMAIN calls : calls[i].op = op }
  IN calls[CHOOSE i \in earlier : \A j \in earlier : j <= i].ret

(* Every attempt whose body has settled, forwarded by the queue or not:    *)
(* its kind, the process its body spawned or killed, how it settled, and   *)
(* the instance at that instant.                                           *)
SettledAttempts ==
  { [outer |-> i, kind |-> promises[i].kind, proc |-> promises[i].proc,
     state |-> promises[i].state, code |-> promises[i].code,
     snap |-> promises[i].snap] :
      i \in { j \in DOMAIN promises : promises[j].kind # "init"
                                      /\ promises[j].state # "pending" } }
  \cup
  { [outer |-> i.outer, kind |-> i.kind, proc |-> i.proc, state |-> i.inner,
     code |-> i.code, snap |-> i.snap] :
      i \in { j \in inflight : j.inner # "pending" } }

Alive == { p \in DOMAIN procs : procs[p].alive }

Idle == ~isOpening /\ ~isRunning /\ ~isClosing

(* No body is queued or in flight: every attempt returned has settled. *)
Quiescent == queue = << >> /\ inflight = {}

(* The two parts of C1: a coalesced open() call, and two open() calls that *)
(* share one attempt.                                                      *)
C1_CoalescedOpenStep ==
  (CallStep("open") /\ isOpening) =>
    /\ Last(calls').ret = LastRet("open")
    /\ Last(calls').ret = openPromise
    /\ UNCHANGED <<isOpening, isClosing, isRunning, pid, port, process,
                   openPromise, closePromise, promises, queue, inflight,
                   procs, emitted, kills, started, log, spawnThrows,
                   crashed, exited, peer>>

C1_TwoOpens ==
  (/\ Len(calls) = 2
   /\ calls[1].op = "open" /\ calls[2].op = "open"
   /\ calls[2].ret = calls[1].ret) =>
    /\ emitted.opening = 1
    /\ Len(procs) = 1
    /\ \A a \in SettledAttempts :
         (a.kind = "open" /\ a.state = "resolved") => a.snap.opens = 1

C2_CoalescedCloseStep ==
  (CallStep("close") /\ isClosing) =>
    /\ Last(calls').ret = LastRet("close")
    /\ Last(calls').ret = closePromise
    /\ UNCHANGED <<isOpening, isClosing, isRunning, pid, port, process,
                   openPromise, closePromise, promises, queue, inflight,
                   procs, emitted, kills, started, log, spawnThrows,
                   crashed, exited, peer>>

C2_OneKillPerAttempt ==
  /\ kills <= Cardinality(FreshCalls("close"))
  /\ emitted.closing <= Cardinality(FreshCalls("close"))

(***************************************************************************)
(* C2.  A close() call made while isClosing is true returns the promise    *)
(* the earlier close() call returned and changes nothing; kill() has been  *)
(* called, and 'closing' emitted, at most once per close attempt created.  *)
(***************************************************************************)
C2_CloseCoalescing ==
  [][C2_CoalescedCloseStep]_vars /\ []C2_OneKillPerAttempt

C2_Witness ==
  /\ Len(calls) = 3
  /\ calls[1].op = "open" /\ calls[2].op = "close" /\ calls[3].op = "close"
  /\ calls[2].fresh /\ ~calls[3].fresh /\ calls[3].ret = calls[2].ret
  /\ kills = 1 /\ emitted.closing = 1
  /\ promises[calls[3].ret].state = "resolved"

(***************************************************************************)
(* C3.  At most one body is in flight; bodies start in the order add()     *)
(* queued them; a body starts only once the promise of the body started    *)
(* before it has settled.                                                  *)
(***************************************************************************)
C3_Serialization ==
  /\ Cardinality(inflight) <= 1
  /\ \A i \in DOMAIN started : started[i] = i + 2
  /\ \A i \in DOMAIN started :
       i < Len(started) => promises[started[i]].state # "pending"
  /\ \A i \in inflight : started # << >> /\ i.outer = Last(started)

C3_Witness ==
  /\ Len(started) = 2
  /\ \E i \in inflight : i.kind = "close" /\ i.inner = "pending"
  /\ queue # << >>
  /\ promises[started[1]].state = "resolved"


(***************************************************************************)
(* C4.  With a server that reports ready and exits only when killed, when  *)
(* the only calls are open() and then close(): 'closing' is not emitted    *)
(* and kill() not called while the open attempt is unsettled, and once     *)
(* both attempts have settled the three flags are false, the handle is     *)
(* null and no process is alive.                                           *)
(***************************************************************************)
C4_OpenThenClose ==
  (/\ Len(calls) = 2
   /\ calls[1].op = "open" /\ calls[2].op = "close") =>
    /\ (emitted.closing > 0 \/ kills > 0) =>
         promises[calls[1].ret].state # "pending"
    /\ (/\ promises[calls[1].ret].state # "pending"
        /\ promises[calls[2].ret].state # "pending") =>
         (Idle /\ process = Null /\ Alive = {})

C4_Witness ==
  /\ Len(calls) = 2
  /\ calls[1].op = "open" /\ calls[2].op = "close" /\ calls[2].busy
  /\ promises[calls[1].ret].state = "resolved"
  /\ promises[calls[2].ret].state = "resolved"
  /\ emitted.closing = 1 /\ kills = 1 /\ emitted.close = 1
  /\ Idle /\ process = Null

(***************************************************************************)
(* C5.  With servers that report ready and exit only when killed, once     *)
(* every attempt returned has settled, the instance is running (isRunning, *)
(* not isOpening, not isClosing, handle non-null) if the last call was     *)
(* open() and idle (the three flags false) if it was close().              *)
(***************************************************************************)
C5_LastCallWins ==
  (Quiescent /\ calls # << >>) =>
    IF Last(calls).op = "open"
    THEN isRunning /\ ~isOpening /\ ~isClosing /\ process # Null
    ELSE Idle

C5_Witness ==
  /\ Len(calls) = 5
  /\ \A i \in 1..5 : calls[i].op = (IF i % 2 = 1 THEN "open" ELSE "close")
  /\ \A i \in 2..5 : calls[i].busy /\ calls[i].fresh
  /\ Quiescent
  /\ isRunning /\ process = 3


(***************************************************************************)
(* C6.  Every open attempt that spawned a process and resolved found, at   *)
(* that instant, isRunning true, isOpening false, the handle non-null and  *)
(* pid and port numbers.                                                   *)
(***************************************************************************)
C6_OpenPostcondition ==
  \A a \in SettledAttempts :
    (a.kind = "open" /\ a.proc # 0 /\ a.state = "resolved") =>
      /\ a.snap.isRunning
      /\ ~a.snap.isOpening
      /\ a.snap.process # Null
      /\ a.snap.pid # Null
      /\ a.snap.port # Null

(***************************************************************************)
(* C7.  Every close attempt that resolved found, at that instant, pid,     *)
(* port and the handle null and isRunning and isClosing false.             *)
(***************************************************************************)
C7_ClosePostcondition ==
  \A a \in SettledAttempts :
    (a.kind = "close" /\ a.state = "resolved") =>
      /\ a.snap.pid = Null
      /\ a.snap.port = Null
      /\ a.snap.process = Null
      /\ ~a.snap.isRunning
      /\ ~a.snap.isClosing

ClassifiedCodes == {ErrCode("error"), ErrCode("alreadyinuse"),
                    ErrCode("deniedforsocket")}

(***************************************************************************)
(* C8.  When the first line of a process that settles its open attempt is  *)
(* classified as an error (generic, address in use, permission denied),    *)
(* the attempt is rejected with the error of that class, and at the        *)
(* instant of rejection isOpening and isRunning are false.                 *)
(***************************************************************************)
C8_FailedOpen ==
  /\ \A p \in DOMAIN procs :
       procs[p].signal \in {"inuse", "denied", "error"} =>
         \E a \in SettledAttempts :
           /\ a.outer = procs[p].attempt
           /\ a.state = "rejected"
           /\ a.code = ErrCode(KeyOf(procs[p].signal))
           /\ ~a.snap.isOpening
           /\ ~a.snap.isRunning
  /\ \A a \in SettledAttempts :
       (a.kind = "open" /\ a.state = "rejected"
        /\ a.code \in ClassifiedCodes) =>
         (~a.snap.isOpening /\ ~a.snap.isRunning)

C8_Witness ==
  \E p \in DOMAIN procs :
    /\ procs[p].signal = "inuse"
    /\ promises[procs[p].attempt].kind = "open"
    /\ promises[procs[p].attempt].state = "rejected"
    /\ promises[procs[p].attempt].code = ErrCode("alreadyinuse")
    /\ promises[procs[p].attempt].snap.pid # Null
    /\ ~promises[procs[p].attempt].snap.isOpening
    /\ ~promises[procs[p].attempt].snap.isRunning

(***************************************************************************)
(* C9.  Every open attempt that rejected found the handle null at that     *)
(* instant.                                                                *)
(***************************************************************************)
C9_NoPartialSuccess ==
  \A a \in SettledAttempts :
    (a.kind = "open" /\ a.state = "rejected") => a.snap.process = Null

(***************************************************************************)
(* C10.  At most one process spawned by the instance is alive.             *)
(***************************************************************************)
C10_OneLiveProcess == Cardinality(Alive) <= 1

(* The attempts of a kind that are unsettled: returned by a call, their    *)
(* body not yet resolved or rejected.                                      *)
Unsettled(kind) ==
  { i \in DOMAIN promises :
      /\ promises[i].kind = kind
      /\ promises[i].state = "pending"
      /\ \A j \in inflight : j.outer = i => j.inner = "pending" }

(***************************************************************************)
(* C11.  At most one open attempt and at most one close attempt is         *)
(* unsettled; so no open() (close()) call creates an attempt while an open *)
(* (close) attempt is unsettled.                                           *)
(***************************************************************************)
C11_OnePendingPerKind ==
  /\ Cardinality(Unsettled("open")) <= 1
  /\ Cardinality(Unsettled("close")) <= 1

(* An open() call on a running instance. *)
C12_OpenWhileRunningStep ==
  (CallStep("open") /\ isRunning) =>
    /\ procs' = procs
    /\ emitted' = emitted
    /\ kills' = kills
    /\ isRunning'
    /\ Quiescent =>
         /\ ~isOpening'
         /\ \E i \in inflight' :
              /\ i.outer = Last(calls').ret
              /\ i.kind = "open" /\ i.inner = "resolved" /\ i.proc = 0
              /\ i.snap.isRunning /\ ~i.snap.isOpening

(***************************************************************************)
(* C12.  An open() call on a running instance spawns no process, emits     *)
(* nothing and leaves isRunning true; with nothing queued or in flight its *)
(* attempt is resolved and isOpening false when the call returns.          *)
(***************************************************************************)
C12_OpenWhileRunning == [][C12_OpenWhileRunningStep]_vars

C12_Witness ==
  \E c \in DOMAIN calls :
    /\ calls[c].op = "open" /\ calls[c].fresh /\ ~calls[c].busy
    /\ promises[calls[c].ret].state = "resolved"
    /\ promises[calls[c].ret].proc = 0
    /\ promises[calls[c].ret].snap.isRunning
    /\ Len(procs) = 1 /\ emitted.opening = 1 /\ emitted.open = 1
    /\ isRunning /\ ~isOpening

(* A close() call on an instance that is not running. *)
C13_CloseWhileStoppedStep ==
  (CallStep("close") /\ ~isRunning) =>
    /\ procs' = procs
    /\ emitted' = emitted
    /\ kills' = kills
    /\ ~isRunning'
    /\ Quiescent =>
         /\ ~isClosing'
         /\ \E i \in inflight' :
              /\ i.outer = Last(calls').ret
              /\ i.kind = "close" /\ i.inner = "resolved" /\ i.proc = 0
              /\ ~i.snap.isClosing

(***************************************************************************)
(* C13.  A close() call on an instance that is not running kills nothing   *)
(* and emits nothing; with nothing queued or in flight its attempt is      *)
(* resolved and isClosing false when the call returns.                     *)
(***************************************************************************)
C13_CloseWhileStopped == [][C13_CloseWhileStoppedStep]_vars

C13_Witness ==
  \E c \in DOMAIN calls :
    /\ calls[c].op = "close" /\ calls[c].fresh /\ ~calls[c].busy
    /\ promises[calls[c].ret].state = "resolved"
    /\ promises[calls[c].ret].proc = 0
    /\ ~promises[calls[c].ret].snap.isClosing
    /\ emitted.open = 1 /\ emitted.close = 1
    /\ emitted.closing = 0 /\ kills = 0
    /\ Idle

(* Process p exits in this step. *)
Exits(p) == procs[p].alive /\ ~procs'[p].alive

(***************************************************************************)
(* C14.  Whenever a spawned process exits, killed by close() or not, pid,  *)
(* port and the handle become null, isRunning and isClosing false, and     *)
(* 'close' is emitted exactly once.                                        *)
(***************************************************************************)
C14_ProcessExit ==
  [][ \A p \in DOMAIN procs :
        Exits(p) =>
          /\ pid' = Null /\ port' = Null /\ process' = Null
          /\ ~isRunning' /\ ~isClosing'
          /\ emitted'.close = emitted.close + 1
          /\ emitted'.opening = emitted.opening
          /\ emitted'.open = emitted.open
          /\ emitted'.closing = emitted.closing ]_vars

C14_Witness ==
  /\ Len(calls) = 1 /\ calls[1].op = "open"
  /\ Len(procs) = 1
  /\ procs[1].signal = "ready" /\ ~procs[1].alive /\ ~procs[1].killed
  /\ promises[calls[1].ret].state = "resolved"
  /\ promises[calls[1].ret].snap.pid # Null
  /\ emitted.close = 1 /\ kills = 0
  /\ pid = Null /\ port = Null /\ process = Null
  /\ ~isRunning /\ ~isClosing

(* A call that creates an attempt: open() on an instance that is not       *)
(* running, close() on a running one.                                      *)
C15_FlagsAfterCallStep ==
  /\ (CallStep("open") /\ Last(calls').fresh /\ ~isRunning) =>
       (isOpening' /\ ~isClosing')
  /\ (CallStep("close") /\ Last(calls').fresh /\ isRunning) =>
       (isClosing' /\ ~isOpening' /\ isRunning')

(***************************************************************************)
(* C15.  When open() creates an attempt on an instance that is not         *)
(* running, isOpening is true and isClosing false when the call returns;   *)
(* when close() creates an attempt on a running instance, isClosing is     *)
(* true, isOpening false and isRunning still true when the call returns.   *)
(***************************************************************************)
C15_FlagsAfterCall == [][C15_FlagsAfterCallStep]_vars

C15_Witness ==
  /\ Len(calls) = 2
  /\ calls[1].op = "open" /\ calls[1].fresh
  /\ calls[2].op = "close" /\ calls[2].fresh /\ ~calls[2].busy
  /\ promises[calls[1].ret].snap.isRunning
  /\ promises[calls[2].ret].state = "pending"
  /\ isClosing /\ ~isOpening /\ isRunning
  /\ kills = 1 /\ procs[1].alive

(* Over a history of calls each made with nothing pending, against servers *)
(* that start and that exit only when killed: whether the instance is to   *)
(* be running after the calls, and how many calls asked for a transition   *)
(* from idle to running (ups) and from running to idle (downs).            *)
RECURSIVE Transitions(_)
Transitions(cs) ==
  IF cs = << >> THEN [running |-> FALSE, ups |-> 0, downs |-> 0]
  ELSE LET r == Transitions(SubSeq(cs, 1, Len(cs) - 1))
           c == Last(cs)
       IN IF c.op = "open" /\ ~r.running
          THEN [r EXCEPT !.running = TRUE, !.ups = @ + 1]
          ELSE IF c.op = "close" /\ r.running
          THEN [r EXCEPT !.running = FALSE, !.downs = @ + 1]
          ELSE r

(* Every call so far was made with no attempt pending. *)
Awaited == \A c \in DOMAIN calls : ~calls[c].busy

(***************************************************************************)
(* C16.  With servers that start and that exit only when killed, and every *)
(* call made after the earlier attempts settled: 'opening' has been        *)
(* emitted once per call that found the instance idle and asked to open,   *)
(* 'closing' once per call that found it running and asked to close, and   *)
(* once the last attempt has settled 'open' and 'close' as often; calls    *)
(* that ask for the state the instance is in emit nothing.                 *)
(***************************************************************************)
C16_NotificationCounts ==
  Awaited =>
    LET r == Transitions(calls)
    IN /\ emitted.opening = r.ups
       /\ emitted.closing = r.downs
       /\ emitted.open <= r.ups /\ emitted.open >= r.ups - 1
       /\ emitted.close <= r.downs /\ emitted.close >= r.downs - 1
       /\ Quiescent => /\ emitted.open = r.ups
                       /\ emitted.close = r.downs
                       /\ isRunning = r.running

C16_Witness ==
  /\ Awaited
  /\ Len(calls) = 5
  /\ calls[1].op = "open" /\ calls[2].op = "open"
  /\ calls[3].op = "close" /\ calls[4].op = "close"
  /\ calls[5].op = "open"
  /\ Quiescent
  /\ emitted = [opening |-> 2, open |-> 2, closing |-> 1, close |-> 1]

(* Where the cycle of notifications stands after a sequence of them:       *)
(* "idle" before 'opening' and after 'close', else the last notification;  *)
(* "broken" once a notification came out of turn.                          *)
RECURSIVE Phase(_)
Phase(events) ==
  IF events = << >> THEN "idle"
  ELSE LET before == Phase(SubSeq(events, 1, Len(events) - 1))
           e == Last(events)
       IN CASE before = "idle" /\ e = "opening" -> "opening"
            [] before = "opening" /\ e = "open" -> "open"
            [] before = "open" /\ e = "closing" -> "closing"
            [] before \in {"opening", "open", "closing"} /\ e = "close" -> "idle"
            [] OTHER -> "broken"

(***************************************************************************)
(* C17.  The notifications of the instance follow the cycle 'opening', at  *)
(* most one 'open', at most one 'closing', 'close': no 'open' without an   *)
(* 'opening' since the last 'close', no 'closing' without an 'open' since  *)
(* the last 'close', no 'opening' before the 'close' of the cycle before.  *)
(***************************************************************************)
C17_NotificationOrder == Phase(log) # "broken"

(* The notifications of a sequence from its last 'opening' on, without it. *)
RECURSIVE SinceOpening(_)
SinceOpening(events) ==
  IF events = << >> \/ Last(events) = "opening" THEN << >>
  ELSE Append(SinceOpening(SubSeq(events, 1, Len(events) - 1)), Last(events))

(***************************************************************************)
(* C18.  Every open attempt rejected with a classified error had, at the   *)
(* instant of rejection, emitted exactly one 'closing' and then one        *)
(* 'close' since its 'opening', and found isClosing false.                 *)
(***************************************************************************)
C18_FailedOpenCloses ==
  \A a \in SettledAttempts :
    (a.kind = "open" /\ a.state = "rejected" /\ a.code \in ClassifiedCodes) =>
      /\ SinceOpening(a.snap.log) = << "closing", "close" >>
      /\ ~a.snap.isClosing

(***************************************************************************)
(* C19.  A callback passed to open() or close(), coalesced calls included, *)
(* is called once the attempt returned has settled: with (null, null) when *)
(* it resolved and with (error, null) when it rejected.                    *)
(***************************************************************************)
C19_CompletionCallback ==
  \A c \in DOMAIN calls :
    LET promise == promises[calls[c].ret]
    IN /\ promise.state = "resolved" =>
            ThenCatch(promise) = << [err |-> 0, res |-> "null"] >>
       /\ promise.state = "rejected" =>
            /\ promise.code # 0
            /\ ThenCatch(promise) = << [err |-> promise.code, res |-> "null"] >>

(***************************************************************************)
(* C20.  While a process is the current one, every pid= and port= match it *)
(* has written in a complete line is stored in pid and port, whether the   *)
(* line came before or after the line that reported readiness.             *)
(***************************************************************************)
C20_PidPortCapture ==
  \A p \in DOMAIN procs :
    (process = p /\ procs[p].alive) =>
      /\ "pid" \in procs[p].written => pid = NumberOf("pid")
      /\ "port" \in procs[p].written => port = NumberOf("port")

(***************************************************************************)
(* C21.  Every open attempt rejected because spawn threw found isOpening   *)
(* false at that instant, and no open() call made after the call whose     *)
(* body threw returned the rejected attempt.                               *)
(***************************************************************************)
C21_SpawnFailure ==
  \A a \in SettledAttempts :
    (a.kind = "open" /\ a.state = "rejected" /\ a.code = SpawnErrorCode) =>
      /\ ~a.snap.isOpening
      /\ \A c, d \in DOMAIN calls :
           (/\ c < d
            /\ calls[c].ret = a.outer /\ ~calls[c].busy
            /\ calls[d].op = "open") => calls[d].ret # a.outer

(* A step of two instances in one program. *)
C22_IndependentStep ==
  /\ peer' # peer => UNCHANGED server
  /\ (/\ Len(peer'.calls) = Len(peer.calls) + 1
      /\ Last(peer'.calls).fresh
      /\ ~Busy(peer)) =>
       (peer'.started # << >> /\ Last(peer'.started) = Last(peer'.calls).ret)
  /\ (/\ Len(calls') = Len(calls) + 1
      /\ Last(calls').fresh
      /\ ~Busy(Cur)) =>
       (started' # << >> /\ Last(started') = Last(calls').ret)

LinesOf(text) == SubSeq(Split(text), 1, Len(Split(text)) - 1)

(* The lines an event was emitted with, in order. *)
RECURSIVE Emitted(_, _)
Emitted(event, events) ==
  IF events = << >> THEN << >>
  ELSE IF Head(events).event = event
       THEN << Head(events).line >> \o Emitted(event, Tail(events))
       ELSE Emitted(event, Tail(events))

(***************************************************************************)
(* C24.  However the text written to one aggregator was cut into chunks,   *)
(* its callback has been invoked once per newline-terminated line of the   *)
(* text, in order, with the text between the separators.                   *)
(***************************************************************************)
C24_ChunkingIndependent ==
  LET delivered == Emitted("stdout", pipes.events)
      expected == LinesOf(pipes.stdout.fed)
  IN /\ Len(delivered) = Len(expected)
     /\ \A i \in DOMAIN delivered : delivered[i] = expected[i]

(***************************************************************************)
(* C23.  Every complete line the process has written to stdout has been    *)
(* re-emitted once as a "stdout" notification and every complete line      *)
(* written to stderr once as a "stderr" notification, verbatim and in      *)
(* order; nothing else is emitted under either name.                       *)
(***************************************************************************)
C23_RawPassThrough ==
  \A stream \in {"stdout", "stderr"} :
    Emitted(stream, pipes.events) = LinesOf(pipes[stream].fed)

(***************************************************************************)
(* C25.  A chunk without a newline invokes the callback zero times and     *)
(* leaves the retained fragment equal to the previous one followed by the  *)
(* chunk.                                                                  *)
(***************************************************************************)
C25_FragmentRetainedStep ==
  \A stream \in {"stdout", "stderr"} :
    LET other == IF stream = "stdout" THEN "stderr" ELSE "stdout"
        before == Len(pipes[stream].fed)
        data == SubSeq(pipes'[stream].fed, before + 1, Len(pipes'[stream].fed))
    IN (/\ pipes' # pipes
        /\ pipes'[other] = pipes[other]
        /\ \A i \in DOMAIN data : data[i] # "nl")
       => /\ pipes'.events = pipes.events
          /\ pipes'[stream].buffer = pipes[stream].buffer \o data

C25_FragmentRetained == [][C25_FragmentRetainedStep]_vars

(***************************************************************************)
(* C26.  When the line of a process that settles its open attempt contains *)
(* "already in use", the attempt is rejected with code -1; when it         *)
(* contains "denied for socket", with code -2; when it starts an error,    *)
(* exception or badvalue token, with code -3.                              *)
(***************************************************************************)
C26_ErrorClassification ==
  \A p \in DOMAIN procs :
    procs[p].signal \in {"inuse", "denied", "error"} =>
      \E a \in SettledAttempts :
        /\ a.outer = procs[p].attempt
        /\ a.state = "rejected"
        /\ a.code = CASE procs[p].signal = "inuse" -> -1
                      [] procs[p].signal = "denied" -> -2
                      [] procs[p].signal = "error" -> -3

(***************************************************************************)
(* C27.  While its open attempt is pending, a line of a process that       *)
(* contains "waiting for connections" resolves the attempt, sets isRunning *)
(* and emits 'open'; a line without any recognized text leaves the attempt *)
(* pending and the instance as it was.                                     *)
(***************************************************************************)
C27_ReadinessStep ==
  \A p \in DOMAIN procs : \A data \in ClassifyLines :
    LET line == SubSeq(data, 1, Len(data) - 1)
        texts == { line[i] : i \in DOMAIN line }
        a == procs[p].attempt
    IN (/\ Data(p, data)
        /\ \E i \in inflight : i.outer = a /\ i.inner = "pending")
       => /\ "ready" \in texts =>
               /\ \E i \in inflight' : i.outer = a /\ i.inner = "resolved"
               /\ isRunning'
               /\ emitted'.open = emitted.open + 1
          /\ texts \cap Tokens = {} =>
               /\ \E i \in inflight' : i.outer = a /\ i.inner = "pending"
               /\ UNCHANGED <<isOpening, isRunning, emitted>>

C27_Readiness == [][C27_ReadinessStep]_vars

(***************************************************************************)
(* C28.  parseConfig without a target returns, for a source that sets      *)
(* conf, an object with conf and (when set) bin and nothing else;          *)
(* otherwise an object with exactly the properties among bin, port,        *)
(* dbpath, storageEngine and nojournal that the source sets, each with the *)
(* source's value.  Without a source it returns the target unchanged.      *)
(***************************************************************************)
C28_ParseConfig ==
  "config" \in parsed.done =>
    LET source == parsed.source
        result == parsed.config
    IN IF source = Missing
       THEN result = (IF parsed.target = Missing THEN EmptyObject
                      ELSE parsed.target)
       ELSE parsed.target = Missing =>
              /\ Keys(result) =
                   IF source.conf # Undefined
                   THEN Keys(source) \cap {"bin", "conf"}
                   ELSE Keys(source) \cap {"bin", "port", "dbpath",
                                           "storageEngine", "nojournal"}
              /\ \A k \in Keys(result) : result[k] = source[k]

(***************************************************************************)
(* C29.  parseFlags returns --config and conf alone when conf is set;      *)
(* otherwise --nojournal, --storageEngine and its value, --dbpath and its  *)
(* value, --port and its value, in this order, each only when the          *)
(* property is set.                                                        *)
(***************************************************************************)
C29_ParseFlags ==
  "flags" \in parsed.done =>
    LET config == parsed.source
        Flag(k, text) == IF config[k] # Undefined THEN text ELSE << >>
    IN parsed.flags =
         IF config.conf # Undefined THEN << "--config", config.conf >>
         ELSE Flag("nojournal", << "--nojournal" >>)
              \o Flag("storageEngine",
                      << "--storageEngine", config.storageEngine >>)
              \o Flag("dbpath", << "--dbpath", config.dbpath >>)
              \o Flag("port", << "--port", config.port >>)

(* The processes whose exitHandler is registered on the program. *)
Hooked == { p \in DOMAIN procs : procs[p].hook }

(***************************************************************************)
(* C30.  The processes for which an exit hook is registered are exactly    *)
(* the spawned processes that have not exited, and when the program exits  *)
(* each registered hook calls close() on the instance.                     *)
(***************************************************************************)
C30_HooksMatch == Hooked = Alive

C30_ExitStep ==
  (~exited /\ exited') =>
    /\ Len(calls') = Len(calls) + Cardinality(Hooked)
    /\ \A i \in (Len(calls) + 1)..Len(calls') : calls'[i].op = "close"

C30_ExitHook == []C30_HooksMatch /\ [][C30_ExitStep]_vars

C30_Witness ==
  /\ exited
  /\ calls # << >>
  /\ Last(calls).op = "close"
  /\ \E p \in Hooked : procs[p].alive /\ procs[p].killed
  /\ \E q \in DOMAIN procs : ~procs[q].alive /\ ~procs[q].hook

(***************************************************************************)
(* C31.  From the kill of the process of a running server until that       *)
(* process has closed, isClosing is true, whatever calls of open() and     *)
(* close() are made in between.                                            *)
(***************************************************************************)
C31_ClosingCoversStop ==
  \A p \in DOMAIN procs :
    (procs[p].alive /\ procs[p].killed) => isClosing

(***************************************************************************)
(* C32.  While isRunning is true, server.process is a process that has    *)
(* not exited; and the exit of a process other than server.process leaves  *)
(* the handle, pid, port and isRunning as they were.                       *)
(***************************************************************************)
C32_RunningHandle ==
  isRunning => (process # Null /\ procs[process].alive)

C32_OtherExitStep ==
  \A p \in DOMAIN procs :
    (/\ procs[p].alive /\ ~procs'[p].alive
     /\ process # Null /\ process # p)
    => UNCHANGED <<process, pid, port, isRunning>>

C32_LiveHandle == []C32_RunningHandle /\ [][C32_OtherExitStep]_vars

(***************************************************************************)
(* C33.  At the instant a close attempt resolves, no process the instance  *)
(* has spawned is alive.                                                   *)
(***************************************************************************)
C33_NoLeakStep ==
  \A i \in inflight' \ inflight :
    (i.kind = "close" /\ i.inner = "resolved") =>
      \A p \in DOMAIN procs' : ~procs'[p].alive

C33_NoLeakedProcess == [][C33_NoLeakStep]_vars

(***************************************************************************)
(* C34.  Only the first terminal line of a process counts: the output that *)
(* rejects an open attempt leaves isRunning as it was and emits no 'open', *)
(* and 'open' is emitted at most once for each spawned process.            *)
(***************************************************************************)
C34_OpenOncePerProcess == emitted.open <= Len(procs)

C34_RejectingStep ==
  \A i \in inflight :
    (/\ i.kind = "open" /\ i.inner = "pending"
     /\ \E j \in inflight' : j.outer = i.outer /\ j.inner = "rejected")
    => UNCHANGED <<isRunning, emitted>>

C34_FirstTerminalOnly ==
  []C34_OpenOncePerProcess /\ [][C34_RejectingStep]_vars

(* Process p has exited without a terminal line while the open attempt     *)
(* that spawned it is unsettled.                                           *)
SilentExit(p) ==
  /\ p \in DOMAIN procs
  /\ ~procs[p].alive
  /\ procs[p].signal = "none"
  /\ promises[procs[p].attempt].state = "pending"

(***************************************************************************)
(* C35.  When a process has exited without a terminal line, the open       *)
(* attempt that spawned it is eventually settled.                          *)
(***************************************************************************)
C35_ProgressAfterSilentExit ==
  \A p \in 1..MaxProcs :
    SilentExit(p) ~> (/\ p \in DOMAIN procs
                      /\ promises[procs[p].attempt].state # "pending")

(***************************************************************************)
(* C36.  isOpening and isClosing are never both true.                      *)
(***************************************************************************)
C36_OpeningXorClosing == ~(isOpening /\ isClosing)

(* open() was called while the process of a running server was being       *)
(* stopped: isRunning is true together with isOpening.                     *)
C36_Witness ==
  /\ Len(calls) = 3
  /\ calls[2].op = "close" /\ calls[3].op = "open" /\ calls[3].fresh
  /\ isOpening /\ ~isClosing /\ isRunning
  /\ \E p \in DOMAIN procs : procs[p].alive /\ procs[p].killed

(***************************************************************************)
(* C37.  No line given to the classifier holds text written to stdout      *)
(* together with text written to stderr.                                   *)
(***************************************************************************)
C37_OneStreamPerLine ==
  \A i \in DOMAIN pipes.handler.lines :
    LET texts == { pipes.handler.lines[i][k] :
                     k \in DOMAIN pipes.handler.lines[i] }
    IN ~({"out", "err"} \subseteq texts)

====
